---- MODULE Spec2Model ----
(***************************************************************************)
(* Model of the storefront's cart state container (CartContext.tsx) and of *)
(* the checkout sequencer (Checkout.tsx, StripePaymentForm).               *)
(*                                                                         *)
(* An optional JavaScript value (a field that may be undefined) is a       *)
(* sequence of length 0 or 1: None is undefined, Some(n) is the number n.  *)
(***************************************************************************)
EXTENDS Integers, Sequences, FiniteSets, TLC

VARIABLES
    \* cart state container
    cart, lastOp, addRun,
    \* Checkout component state (toast: the kinds of toast shown so far)
    shippingInfo, currentStep, clientSecret, loading, toast, navigated,
    \* proceedToPayment in flight, and what it was started with
    pcProceed, submittedInfo, intentAmount,
    \* PaymentForm and the payment processor
    processing, pcPay, intentStatus,
    \* handlePaymentSuccess in flight
    user, pcFin, orderData, itemReq, stockReq, newStock,
    \* record store
    orders, orderItems, storeStock,
    \* milestones of a checkout run, in the order they happened
    events,
    \* ProductGrid component state, and its fetchProducts in flight
    products, gridLoading, pcFetch,
    \* several shoppers' browsers buying one product, and its stock before
    shoppers, initialStock,
    \* products collection, its realtime events not yet delivered to the
    \* grid, and the answer to fetchProducts on its way to the grid
    productStore, eventQueue, fetchAnswer,
    \* OrdersManagement: the orders collection (status per id), the local
    \* order list, the toasts of the last call, updateOrderStatus in flight
    orderStore, adminOrders, adminToast, pcAdmin, adminReq,
    \* OAuth: localStorage 'oauth_state', pb.authStore, the callback in flight
    oauth_state, authStore, pcCallback, callback

cartVars == <<cart, lastOp, addRun>>
shippingVars == <<shippingInfo, currentStep, clientSecret, loading, toast, navigated,
                  pcProceed, submittedInfo, intentAmount>>
paymentVars == <<processing, pcPay, intentStatus>>
finalizeVars == <<user, pcFin, orderData, itemReq, stockReq, newStock>>
storeVars == <<orders, orderItems, storeStock>>
gridVars == <<products, gridLoading, pcFetch>>
shopperVars == <<shoppers, initialStock>>
catalogVars == <<productStore, eventQueue, fetchAnswer>>
adminVars == <<orderStore, adminOrders, adminToast, pcAdmin, adminReq>>
oauthVars == <<oauth_state, authStore, pcCallback, callback>>
restVars == <<catalogVars, adminVars, oauthVars>>
otherVars == <<gridVars, shopperVars, restVars>>
vars == <<cartVars, shippingVars, paymentVars, finalizeVars, storeVars, events, otherVars>>

\* ------------------------------------------------------------------ bounds
\* Largest stock count a product record carries.
MaxStock == 2
\* Largest quantity a cart entry is driven to (entries of unknown stock have
\* no ceiling in the code).
MaxQty == 2
\* Longest catalog list the grid is driven to.
MaxList == 3
\* Number of shoppers buying at the same time.
NumShoppers == 2
\* Largest number of realtime events waiting to be delivered.
MaxPending == 2

\* ------------------------------------------------------------- value sets
None == <<>>
Some(n) == <<n>>
IsDefined(o) == o # None
Val(o) == o[1]

ProductIds == {"A", "B"}
Prices == {5, 10}
\* sale_price as the views hand it over: undefined, 0 (unset in the record
\* store) or a number.
SalePrices == {None, Some(0), Some(8)}
Stocks == {None} \cup {Some(n) : n \in 0..MaxStock}

\* Product (ProductCard's interface), reduced to the fields the cart reads.
\* Product A takes every price and sale price; product B keeps one price and
\* no sale price, and varies in stock only.
Products ==
    [id : {"A"}, price : Prices, sale_price : SalePrices, stock : Stocks]
      \cup [id : {"B"}, price : {5}, sale_price : {None}, stock : Stocks]

\* A products record as the record store pushes it: numbers, 0 for an unset
\* sale price, stock possibly absent.
RawRecords ==
    [id : {"A"}, price : Prices, sale_price : {0, 8}, stock : Stocks]
      \cup [id : {"B"}, price : {5}, sale_price : {0}, stock : Stocks]

\* The records of the events drawn: every record for an 'update', one record
\* per product id for the events the cart ignores.
EventRecords(action) ==
    IF action = "update" THEN RawRecords
    ELSE {rec \in RawRecords : rec.stock = None /\ rec.price = 5 /\ rec.sale_price = 0}

CartItem(p, q) ==
    [id |-> p.id, price |-> p.price, sale_price |-> p.sale_price,
     stock |-> p.stock, quantity |-> q]

\* ---------------------------------------------------------- cart container
\* prevCart.find(item => item.id === id)
HasItem(c, id) == \E i \in 1..Len(c) : c[i].id = id
IndexOf(c, id) == CHOOSE i \in 1..Len(c) : c[i].id = id /\ \A j \in 1..(i - 1) : c[j].id # id
FindItem(c, id) == c[IndexOf(c, id)]

\* prevCart.filter(item => item.id !== id)
RECURSIVE FilterOut(_, _)
FilterOut(c, id) ==
    IF c = <<>> THEN <<>>
    ELSE IF Head(c).id = id THEN FilterOut(Tail(c), id)
         ELSE <<Head(c)>> \o FilterOut(Tail(c), id)

\* The subscription callback's transformation of a pushed record into a Product.
toProduct(rec) ==
    [id |-> rec.id,
     price |-> rec.price,
     sale_price |-> IF rec.sale_price # 0 THEN Some(rec.sale_price) ELSE None,
     stock |-> rec.stock]

\* Faulty variant: merges the pushed stock into the old entry.
updateProductInCart_KeepsOldFields(c, updatedProduct) ==
    [i \in 1..Len(c) |->
        IF c[i].id = updatedProduct.id
        THEN [c[i] EXCEPT !.stock = updatedProduct.stock]
        ELSE c[i]]

\* Faulty variant: a product that is not in the cart is added.
updateProductInCart_Upserts(c, updatedProduct) ==
    IF HasItem(c, updatedProduct.id)
    THEN [i \in 1..Len(c) |->
            IF c[i].id = updatedProduct.id
            THEN CartItem(updatedProduct, c[i].quantity)
            ELSE c[i]]
    ELSE Append(c, CartItem(updatedProduct, 1))

updateProductInCart(c, updatedProduct) ==
    [i \in 1..Len(c) |->
        IF c[i].id = updatedProduct.id
        THEN CartItem(updatedProduct, c[i].quantity)
        ELSE c[i]]

\* Faulty variant: no stock check.
addToCart_NoStockCheck(c, product) ==
    IF HasItem(c, product.id)
    THEN [i \in 1..Len(c) |->
            IF c[i].id = product.id
            THEN [c[i] EXCEPT !.quantity = c[i].quantity + 1]
            ELSE c[i]]
    ELSE Append(c, CartItem(product, 1))

\* Faulty variant: a product that is in the cart at its stock limit is added
\* as a new entry.
addToCart_AppendsAtLimit(c, product) ==
    IF HasItem(c, product.id)
          /\ ~(IsDefined(product.stock) /\ FindItem(c, product.id).quantity >= Val(product.stock))
    THEN [i \in 1..Len(c) |->
            IF c[i].id = product.id
            THEN [c[i] EXCEPT !.quantity = c[i].quantity + 1]
            ELSE c[i]]
    ELSE IF IsDefined(product.stock) /\ Val(product.stock) <= 0
         THEN c
         ELSE Append(c, CartItem(product, 1))

addToCart(c, product) ==
    IF HasItem(c, product.id)
    THEN IF IsDefined(product.stock) /\ FindItem(c, product.id).quantity >= Val(product.stock)
         THEN c
         ELSE [i \in 1..Len(c) |->
                 IF c[i].id = product.id
                 THEN [c[i] EXCEPT !.quantity = c[i].quantity + 1]
                 ELSE c[i]]
    ELSE IF IsDefined(product.stock) /\ Val(product.stock) <= 0
         THEN c
         ELSE Append(c, CartItem(product, 1))

removeFromCart(c, productId) == FilterOut(c, productId)

\* Faulty variant: a quantity above stock is rejected instead of capped.
updateQuantity_RejectsAboveStock(c, productId, quantity) ==
    IF quantity <= 0
    THEN removeFromCart(c, productId)
    ELSE [i \in 1..Len(c) |->
            IF c[i].id = productId
            THEN IF IsDefined(c[i].stock) /\ quantity > Val(c[i].stock)
                 THEN c[i]
                 ELSE [c[i] EXCEPT !.quantity = quantity]
            ELSE c[i]]

updateQuantity(c, productId, quantity) ==
    IF quantity <= 0
    THEN removeFromCart(c, productId)
    ELSE [i \in 1..Len(c) |->
            IF c[i].id = productId
            THEN IF IsDefined(c[i].stock) /\ quantity > Val(c[i].stock)
                 THEN [c[i] EXCEPT !.quantity = Val(c[i].stock)]
                 ELSE [c[i] EXCEPT !.quantity = quantity]
            ELSE c[i]]

clearCart(c) == <<>>

\* Faulty variant: any positive sale price wins (as handleOrderCreation has it).
effectivePrice_AnyPositiveSale(item) ==
    IF IsDefined(item.sale_price) /\ Val(item.sale_price) > 0
    THEN Val(item.sale_price)
    ELSE item.price

\* (item.sale_price && item.sale_price > 0 && item.sale_price < item.price)
\*    ? item.sale_price : item.price
effectivePrice(item) ==
    IF IsDefined(item.sale_price) /\ Val(item.sale_price) # 0
       /\ Val(item.sale_price) > 0 /\ Val(item.sale_price) < item.price
    THEN Val(item.sale_price)
    ELSE item.price

\* cart.reduce((total, item) => total + effectivePrice * item.quantity, 0)
RECURSIVE Reduce(_, _)
Reduce(c, total) ==
    IF c = <<>> THEN total
    ELSE Reduce(Tail(c), total + effectivePrice(Head(c)) * Head(c).quantity)

getTotalPrice(c) == Reduce(c, 0)

getItemQuantity(c, productId) ==
    IF HasItem(c, productId) THEN FindItem(c, productId).quantity ELSE 0

\* ------------------------------------------------------- history variables
\* lastOp names the last operation and its arguments: a product id, a
\* quantity (updateQuantity), the Product handed to updateProductInCart.
NoProduct == [id |-> "", price |-> 0, sale_price |-> None, stock |-> None]
Op(name, id, q) == [op |-> name, id |-> id, q |-> q, p |-> NoProduct]
NoOp == Op("none", "", 0)

\* addRun counts the addToCart(P) calls made on a cart that was empty and has
\* seen calls of addToCart(P) only; n = 0 is "no such run".
NoRun == [p |-> NoProduct, n |-> 0]

WithinBound(c) == \A i \in 1..Len(c) : c[i].quantity <= MaxQty

\* ----------------------------------------------------------- cart actions
AddToCart(product) ==
    /\ WithinBound(addToCart(cart, product))
    /\ cart' = addToCart(cart, product)
    /\ lastOp' = Op("addToCart", product.id, 0)
    /\ addRun' = IF addRun.n > 0 /\ addRun.p = product /\ addRun.n <= MaxStock
                 THEN [addRun EXCEPT !.n = addRun.n + 1]
                 ELSE IF cart = <<>> /\ IsDefined(product.stock)
                      THEN [p |-> product, n |-> 1]
                      ELSE NoRun

RemoveFromCart(productId) ==
    /\ cart' = removeFromCart(cart, productId)
    /\ lastOp' = Op("removeFromCart", productId, 0)
    /\ addRun' = NoRun

UpdateQuantity(productId, quantity) ==
    /\ cart' = updateQuantity(cart, productId, quantity)
    /\ lastOp' = Op("updateQuantity", productId, quantity)
    /\ addRun' = NoRun

ClearCart ==
    /\ cart' = clearCart(cart)
    /\ lastOp' = Op("clearCart", "", 0)
    /\ addRun' = NoRun

\* The realtime subscription callback: only 'update' events reach the cart.
OnProductEvent(action, rec) ==
    /\ cart' = IF action = "update" THEN updateProductInCart(cart, toProduct(rec)) ELSE cart
    /\ lastOp' = [Op(action, rec.id, 0) EXCEPT
                     !.p = IF action = "update" THEN toProduct(rec) ELSE NoProduct]
    /\ addRun' = NoRun

CartInit ==
    /\ cart = <<>>
    /\ lastOp = NoOp
    /\ addRun = NoRun

CartNext ==
    \/ \E product \in Products : AddToCart(product)
    \/ \E productId \in ProductIds : RemoveFromCart(productId)
    \/ \E productId \in ProductIds, quantity \in (0 - 1)..MaxQty : UpdateQuantity(productId, quantity)
    \/ ClearCart
    \/ \E action \in {"create", "update", "delete"} :
          \E rec \in EventRecords(action) : OnProductEvent(action, rec)

\* --------------------------------------------------------------- checkout
\* Form values: the empty string and one non-empty string.
FieldValues == {"", "x"}
\* The fields of ShippingInfo.
ShippingFields ==
    {"firstName", "lastName", "email", "phone", "address", "city", "postalCode", "country"}
\* The inputs of the shipping form that carry the HTML attribute `required`.
RequiredInputs ==
    {"firstName", "lastName", "email", "phone", "address", "city", "postalCode", "country"}
\* validateForm's list `required`.
ValidatedFields ==
    {"firstName", "lastName", "email", "phone", "address", "city", "postalCode"}

\* useState<ShippingInfo>: every field empty but country (and email, for a
\* signed-in user).
InitialShippingInfo(u) ==
    [f \in ShippingFields |->
        IF f = "country" \/ (f = "email" /\ u # None) THEN "x" ELSE ""]
FilledShippingInfo == [f \in ShippingFields |-> "x"]

\* The payment API's client secret for a created intent.
Secret == "cs"

ShippingFee == 5
FreeShippingThreshold == 50

\* Faulty variant: the fee is waived from the threshold on.
OrderTotal_WaivedAtThreshold(c) ==
    getTotalPrice(c) + (IF getTotalPrice(c) >= FreeShippingThreshold THEN 0 ELSE ShippingFee)

\* getTotalPrice() + (getTotalPrice() > 50 ? 0 : 5)
OrderTotal(c) ==
    getTotalPrice(c) + (IF getTotalPrice(c) > FreeShippingThreshold THEN 0 ELSE ShippingFee)

\* The order summary's subtotal, shipping and total, as rendered.
DisplayedTotal(c) ==
    LET subtotal == getTotalPrice(c)
        shipping == IF subtotal > FreeShippingThreshold THEN 0 ELSE ShippingFee
    IN  subtotal + shipping

\* The browser's constraint validation of the form: a submit event is
\* dispatched only when no `required` input is empty.
constraintValidation(info) == \A f \in RequiredInputs : info[f] # ""

validateForm(info) == \A f \in ValidatedFields : info[f] # ""

\* The payment form is rendered.
PaymentFormShown == currentStep = "payment" /\ clientSecret # ""

\* handleInputChange, from an input of the shipping form (rendered in the
\* shipping step only; the inputs are not disabled while loading).
HandleInputChange(field, value) ==
    /\ currentStep = "shipping"
    /\ ~navigated
    /\ shippingInfo[field] # value
    /\ shippingInfo' = [shippingInfo EXCEPT ![field] = value]
    /\ lastOp' = Op("handleInputChange", "", 0)
    /\ UNCHANGED <<cart, addRun, currentStep, clientSecret, loading, toast, navigated,
                   pcProceed, submittedInfo, intentAmount,
                   paymentVars, finalizeVars, storeVars, events>>
    /\ UNCHANGED otherVars

\* A click on "Continue to Payment" (disabled while loading): the browser's
\* constraint validation, then handleShippingSubmit, validateForm and
\* proceedToPayment up to its await.
HandleShippingSubmit ==
    /\ currentStep = "shipping"
    /\ ~navigated
    /\ ~loading
    /\ IF ~constraintValidation(shippingInfo)
       THEN /\ lastOp' = Op("submitBlocked", "", 0)
            /\ UNCHANGED <<loading, clientSecret, pcProceed, submittedInfo, intentAmount, toast>>
       ELSE IF ~validateForm(shippingInfo)
       THEN /\ lastOp' = Op("submitInvalid", "", 0)
            /\ toast' = toast \cup {"field_required"}
            /\ UNCHANGED <<loading, clientSecret, pcProceed, submittedInfo, intentAmount>>
       ELSE /\ lastOp' = Op("handleShippingSubmit", "", 0)
            /\ loading' = TRUE
            /\ clientSecret' = ""
            /\ pcProceed' = "awaitIntent"
            /\ submittedInfo' = shippingInfo
            /\ intentAmount' = OrderTotal(cart)
            /\ UNCHANGED toast
    /\ UNCHANGED <<cart, addRun, shippingInfo, currentStep, navigated,
                   paymentVars, finalizeVars, storeVars, events>>
    /\ UNCHANGED otherVars

\* createStripePaymentIntent returns (ok) or throws: the rest of
\* proceedToPayment, its catch and its finally.
proceedToPayment(ok) ==
    /\ pcProceed = "awaitIntent"
    /\ IF ok
       THEN /\ clientSecret' = Secret
            /\ currentStep' = "payment"
            /\ intentStatus' = "requires_payment"
            /\ toast' = toast \cup {"payment_ready"}
            /\ lastOp' = Op("intentCreated", "", 0)
       ELSE /\ toast' = toast \cup {"intent_error"}
            /\ lastOp' = Op("intentFailed", "", 0)
            /\ UNCHANGED <<clientSecret, currentStep, intentStatus>>
    /\ loading' = FALSE
    /\ pcProceed' = "idle"
    /\ UNCHANGED <<cart, addRun, shippingInfo, navigated, submittedInfo, intentAmount,
                   processing, pcPay, finalizeVars, storeVars, events>>
    /\ UNCHANGED otherVars

\* The "Back to Shipping" button of the payment step.
BackToShipping ==
    /\ PaymentFormShown
    /\ ~navigated
    /\ currentStep' = "shipping"
    /\ lastOp' = Op("backToShipping", "", 0)
    /\ UNCHANGED <<cart, addRun, shippingInfo, clientSecret, loading, toast, navigated,
                   pcProceed, submittedInfo, intentAmount,
                   paymentVars, finalizeVars, storeVars, events>>
    /\ UNCHANGED otherVars

\* ------------------------------------------------------- payment, finalize
\* useAuth's user, by what isOAuthUser reads of it: an id with an
\* oauth-/temp-/google- prefix, a username made of the email's local part and
\* a 10-digit timestamp, a username that looks auto-generated, a name, an email.
RegularUser ==
    [id |-> "u1", prefixedId |-> FALSE, emailStampUsername |-> FALSE,
     autoGenUsername |-> FALSE, hasName |-> TRUE, hasEmail |-> TRUE]
OAuthUser ==
    [id |-> "u2", prefixedId |-> FALSE, emailStampUsername |-> TRUE,
     autoGenUsername |-> TRUE, hasName |-> TRUE, hasEmail |-> TRUE]
Users == {None, Some(RegularUser), Some(OAuthUser)}

isOAuthUser(u) ==
    IF u = None THEN FALSE
    ELSE IF Val(u).prefixedId THEN TRUE
    ELSE IF Val(u).emailStampUsername /\ Val(u).hasEmail THEN TRUE
    ELSE Val(u).autoGenUsername /\ Val(u).hasName /\ Val(u).hasEmail

NoOrderData == [user |-> None, total_price |-> 0, status |-> "", guest |-> FALSE]

\* orderData of handlePaymentSuccess: the user reference only for a real
\* database id, the guest contact fields for an OAuth user and for no user.
BuildOrderData(actualUserId, isOAuthUserFlag) ==
    [user |-> actualUserId,
     total_price |-> OrderTotal(cart),
     status |-> "paid",
     guest |-> (isOAuthUserFlag \/ user = None)]

Range(seq) == {seq[i] : i \in 1..Len(seq)}
AddEvent(e) == IF e \in Range(events) THEN events ELSE Append(events, e)

ItemsCreated(ir) == \A i \in 1..Len(ir) : ir[i] = "created"
\* Faulty variant: the first settled stock update ends the wait.
StockSettled_Any(sr) == \E i \in 1..Len(sr) : sr[i] \in {"done", "failed"}
\* Promise.all(stockUpdatePromises) has resolved.
StockSettled(sr) == \A i \in 1..Len(sr) : sr[i] \in {"done", "failed"}

\* PaymentForm.handleSubmit up to its await of stripe.confirmPayment (the
\* Pay button is disabled while processing).
HandleSubmit ==
    /\ PaymentFormShown
    /\ ~navigated
    /\ ~processing
    /\ pcPay = "idle"
    /\ processing' = TRUE
    /\ pcPay' = "confirming"
    /\ UNCHANGED <<cartVars, shippingVars, intentStatus, finalizeVars, storeVars, events>>
    /\ UNCHANGED otherVars

\* handlePaymentSuccess up to its first await: the user check of an OAuth
\* user, or else the creation of the order.
StartFinalize ==
    /\ loading' = TRUE
    /\ IF user # None /\ isOAuthUser(user)
       THEN /\ pcFin' = "verifyUser"
            /\ UNCHANGED orderData
       ELSE /\ pcFin' = "createOrder"
            /\ orderData' = BuildOrderData(IF user # None THEN Some(Val(user).id) ELSE None, FALSE)

\* Faulty variant: onSuccess is called on every return of confirmPayment, an
\* error for an intent that has succeeded before included.
ConfirmPaymentReturns_NoErrorBranch(ok) ==
    /\ pcPay = "confirming"
    /\ ok => intentStatus = "requires_payment"
    /\ intentStatus' = IF ok THEN "succeeded" ELSE intentStatus
    /\ toast' = toast \cup {"payment_ok"}
    /\ events' = IF ok THEN AddEvent("payment_confirmed") ELSE events
    /\ StartFinalize
    /\ processing' = FALSE
    /\ pcPay' = "idle"
    /\ UNCHANGED <<cartVars, shippingInfo, currentStep, clientSecret, navigated,
                   pcProceed, submittedInfo, intentAmount,
                   user, itemReq, stockReq, newStock, storeVars>>
    /\ UNCHANGED otherVars

\* Faulty variant: onSuccess is called whatever confirmPayment returns.
ConfirmPaymentReturns_SuccessOnError(ok) ==
    /\ pcPay = "confirming"
    /\ pcFin = "idle"
    /\ ok => intentStatus = "requires_payment"
    /\ intentStatus' = IF ok THEN "succeeded" ELSE intentStatus
    /\ toast' = toast \cup {"payment_ok"}
    /\ events' = IF ok THEN AddEvent("payment_confirmed") ELSE events
    /\ StartFinalize
    /\ processing' = FALSE
    /\ pcPay' = "idle"
    /\ UNCHANGED <<cartVars, shippingInfo, currentStep, clientSecret, navigated,
                   pcProceed, submittedInfo, intentAmount,
                   user, itemReq, stockReq, newStock, storeVars>>
    /\ UNCHANGED otherVars

\* stripe.confirmPayment returns: without error (ok; the processor confirms
\* an intent once) or with one. The rest of handleSubmit: toast, onSuccess()
\* (not awaited) or onError, and the finally.
ConfirmPaymentReturns(ok) ==
    /\ pcPay = "confirming"
    /\ ok => intentStatus = "requires_payment"
    /\ IF ok
       THEN /\ intentStatus' = "succeeded"
            /\ toast' = toast \cup {"payment_ok"}
            /\ events' = AddEvent("payment_confirmed")
            /\ StartFinalize
       ELSE /\ toast' = toast \cup {"payment_error"}
            /\ UNCHANGED <<intentStatus, events, loading, pcFin, orderData>>
    /\ processing' = FALSE
    /\ pcPay' = "idle"
    /\ UNCHANGED <<cartVars, shippingInfo, currentStep, clientSecret, navigated,
                   pcProceed, submittedInfo, intentAmount,
                   user, itemReq, stockReq, newStock, storeVars>>
    /\ UNCHANGED otherVars

\* pb.collection('_pb_users_auth_').getOne(user.id) returns or throws.
VerifyUserReturns(found) ==
    /\ pcFin = "verifyUser"
    /\ orderData' = BuildOrderData(IF found THEN Some(Val(user).id) ELSE None, TRUE)
    /\ pcFin' = "createOrder"
    /\ UNCHANGED <<cartVars, shippingVars, paymentVars, user, itemReq, stockReq, newStock,
                   storeVars, events>>
    /\ UNCHANGED otherVars

\* The catch and finally of handlePaymentSuccess.
CatchOrderError ==
    /\ toast' = toast \cup {"order_error"}
    /\ loading' = FALSE
    /\ pcFin' = "failed"

\* The creation of the order record returns (ok) or fails; on success the
\* order-item requests of every cart line are issued together.
CreateOrderReturns(ok) ==
    /\ pcFin = "createOrder"
    /\ IF ok
       THEN /\ orders' = Append(orders, orderData)
            /\ events' = AddEvent("order_persisted")
            /\ itemReq' = [i \in 1..Len(cart) |-> "pending"]
            /\ pcFin' = "items"
            /\ UNCHANGED <<toast, loading>>
       ELSE /\ CatchOrderError
            /\ UNCHANGED <<orders, events, itemReq>>
    /\ UNCHANGED <<cartVars, shippingInfo, currentStep, clientSecret, navigated,
                   pcProceed, submittedInfo, intentAmount, paymentVars,
                   user, orderData, stockReq, newStock, orderItems, storeStock>>
    /\ UNCHANGED otherVars

\* Faulty variant: the unit price is the regular price.
OrderItemData_RegularPrice(order, item) ==
    [order |-> order, product |-> item.id, quantity |-> item.quantity, price |-> item.price]

\* orderItemData of a cart line; the order is named by its position in the
\* orders collection.
OrderItemData(order, item) ==
    [order |-> order, product |-> item.id, quantity |-> item.quantity,
     price |-> effectivePrice(item)]

\* The order-item request of cart line i returns (ok) or fails.
\* Promise.all(orderItemPromises) resolves with the last success, and then
\* the stock reads of every cart line are issued together; it rejects with
\* the first failure, which ends handlePaymentSuccess in its catch.
ItemRequestReturns(i, ok) ==
    /\ itemReq[i] = "pending"
    /\ LET ir == [itemReq EXCEPT ![i] = IF ok THEN "created" ELSE "failed"] IN
       /\ itemReq' = ir
       /\ orderItems' =
            IF ok
            THEN orderItems \cup {OrderItemData(Len(orders), cart[i])}
            ELSE orderItems
       /\ IF pcFin = "items" /\ ~ok
          THEN /\ CatchOrderError
               /\ UNCHANGED stockReq
          ELSE IF pcFin = "items" /\ ItemsCreated(ir)
          THEN /\ pcFin' = "stock"
               /\ stockReq' = [j \in 1..Len(cart) |-> "read"]
               /\ UNCHANGED <<toast, loading>>
          ELSE UNCHANGED <<pcFin, toast, loading, stockReq>>
    /\ UNCHANGED <<cartVars, shippingInfo, currentStep, clientSecret, navigated,
                   pcProceed, submittedInfo, intentAmount, paymentVars,
                   user, orderData, newStock, orders, storeStock, events>>
    /\ UNCHANGED otherVars

\* After Promise.all(stockUpdatePromises): clearCart, toast, navigate, finally.
FinishFinalize(sr) ==
    IF StockSettled(sr)
    THEN /\ cart' = clearCart(cart)
         /\ toast' = toast \cup {"order_ok"}
         /\ navigated' = TRUE
         /\ loading' = FALSE
         /\ pcFin' = "done"
    ELSE UNCHANGED <<cart, toast, navigated, loading, pcFin>>

\* Faulty variant: no floor at zero.
DecrementedStock_NoFloor(current, quantity) == current - quantity

\* Math.max(0, (currentProduct.stock || 0) - item.quantity), for a stock that
\* is a number (|| 0 leaves a number as it is).
DecrementedStock(current, quantity) ==
    IF current - quantity > 0 THEN current - quantity ELSE 0

\* Faulty variant: a failed stock read is not caught per line.
StockReadReturns_Rethrows(i, ok) ==
    /\ pcFin = "stock"
    /\ stockReq[i] = "read"
    /\ LET sr == [stockReq EXCEPT ![i] = IF ok THEN "write" ELSE "failed"] IN
       /\ stockReq' = sr
       /\ newStock' = IF ok
                      THEN [newStock EXCEPT ![i] = DecrementedStock(storeStock[cart[i].id], cart[i].quantity)]
                      ELSE newStock
       /\ IF ok THEN FinishFinalize(sr)
          ELSE CatchOrderError /\ UNCHANGED <<cart, navigated>>
    /\ UNCHANGED <<lastOp, addRun, shippingInfo, currentStep, clientSecret,
                   pcProceed, submittedInfo, intentAmount, paymentVars,
                   user, orderData, itemReq, storeVars, events>>
    /\ UNCHANGED otherVars

\* The read of line i's product returns (ok) or fails; on success the new
\* stock is computed and its write issued; a failure is caught and logged.
StockReadReturns(i, ok) ==
    /\ pcFin = "stock"
    /\ stockReq[i] = "read"
    /\ LET sr == [stockReq EXCEPT ![i] = IF ok THEN "write" ELSE "failed"] IN
       /\ stockReq' = sr
       /\ newStock' = IF ok
                      THEN [newStock EXCEPT ![i] = DecrementedStock(storeStock[cart[i].id], cart[i].quantity)]
                      ELSE newStock
       /\ FinishFinalize(sr)
    /\ UNCHANGED <<lastOp, addRun, shippingInfo, currentStep, clientSecret,
                   pcProceed, submittedInfo, intentAmount, paymentVars,
                   user, orderData, itemReq, storeVars, events>>
    /\ UNCHANGED otherVars

\* Faulty variant: a failed stock write is not caught per line.
StockWriteReturns_Rethrows(i, ok) ==
    /\ pcFin = "stock"
    /\ stockReq[i] = "write"
    /\ LET sr == [stockReq EXCEPT ![i] = IF ok THEN "done" ELSE "failed"] IN
       /\ stockReq' = sr
       /\ storeStock' = IF ok THEN [storeStock EXCEPT ![cart[i].id] = newStock[i]] ELSE storeStock
       /\ events' = IF ok THEN AddEvent("stock_updated") ELSE events
       /\ IF ok THEN FinishFinalize(sr)
          ELSE CatchOrderError /\ UNCHANGED <<cart, navigated>>
    /\ UNCHANGED <<lastOp, addRun, shippingInfo, currentStep, clientSecret,
                   pcProceed, submittedInfo, intentAmount, paymentVars,
                   user, orderData, itemReq, newStock, orders, orderItems>>
    /\ UNCHANGED otherVars

\* The write of line i's new stock returns (ok) or fails (caught and logged).
StockWriteReturns(i, ok) ==
    /\ pcFin = "stock"
    /\ stockReq[i] = "write"
    /\ LET sr == [stockReq EXCEPT ![i] = IF ok THEN "done" ELSE "failed"] IN
       /\ stockReq' = sr
       /\ storeStock' = IF ok THEN [storeStock EXCEPT ![cart[i].id] = newStock[i]] ELSE storeStock
       /\ events' = IF ok THEN AddEvent("stock_updated") ELSE events
       /\ FinishFinalize(sr)
    /\ UNCHANGED <<lastOp, addRun, shippingInfo, currentStep, clientSecret,
                   pcProceed, submittedInfo, intentAmount, paymentVars,
                   user, orderData, itemReq, newStock, orders, orderItems>>
    /\ UNCHANGED otherVars

\* ----------------------------------------------------------- catalog grid
\* A products record as the record store returns and pushes it to the grid:
\* sale_price 0 when unset, the in_stock and hidden flags, display_order and
\* the creation time (B was created after A).
GridRecords ==
    [id : {"A"}, price : {10}, sale_price : {0, 8}, stock : {Some(1)},
     in_stock : BOOLEAN, hidden : BOOLEAN, display_order : {0, 1}, created : {1}]
      \cup [id : {"B"}, price : {10}, sale_price : {0, 8}, stock : {Some(1)},
             in_stock : BOOLEAN, hidden : BOOLEAN, display_order : {0, 1}, created : {2}]

\* The store's sort '-display_order,-created'.
StoreOrdered(records) ==
    \A i, j \in 1..Len(records) :
        i < j => \/ records[i].display_order > records[j].display_order
                 \/ /\ records[i].display_order = records[j].display_order
                    /\ records[i].created > records[j].created

\* The products collection as getFullList reads it, sorted: at most one record
\* per id (sale prices unset; B in stock).
StoreRecords ==
    {r \in GridRecords : r.sale_price = 0 /\ (r.id = "B" => r.in_stock)}
StoreLists ==
    {<<>>} \cup {<<r>> : r \in StoreRecords}
           \cup {l \in {<<r1, r2>> : r1 \in StoreRecords, r2 \in StoreRecords} :
                    l[1].id # l[2].id /\ StoreOrdered(l)}

\* The records of the events drawn: every flag and sale price for a 'create'
\* and an 'update', one record per id for a 'delete'.
CatalogEventRecords(action) ==
    IF action = "delete"
    THEN {r \in GridRecords : r.display_order = 0 /\ r.sale_price = 0 /\ r.in_stock /\ ~r.hidden}
    ELSE {r \in GridRecords : r.display_order = 0}

\* getFullList({sort, filter: 'hidden != true'}) and getFullList({sort}), as
\* the store answers them.
getFullList(store, filtered) ==
    LET NotHidden(r) == r.hidden # TRUE
    IN  IF filtered THEN SelectSeq(store, NotHidden) ELSE store

\* transformRecord, and the same mapping in fetchProducts: a stock that is a
\* number stays as it is, a sale_price of 0 becomes undefined.
transformRecord(record) ==
    [id |-> record.id,
     price |-> record.price,
     sale_price |-> IF record.sale_price = 0 THEN None ELSE Some(record.sale_price),
     stock |-> record.stock]

\* The mapping of the fallback path of fetchProducts: sale_price is kept raw.
transformFallback(record) ==
    [id |-> record.id,
     price |-> record.price,
     sale_price |-> Some(record.sale_price),
     stock |-> record.stock]

\* e.record.in_stock && !e.record.hidden
isListed(record) == record.in_stock /\ ~record.hidden

\* Faulty variant: a created record is listed whatever its hidden flag.
onCreate_IgnoresHidden(prev, record) ==
    IF record.in_stock THEN <<transformRecord(record)>> \o prev ELSE prev

\* The subscription callback's setProducts updaters.
onCreate(prev, record) ==
    IF isListed(record) THEN <<transformRecord(record)>> \o prev ELSE prev

\* Faulty variant: a listed record that is no longer visible stays listed.
onUpdate_NeverRemoves(prev, record) ==
    IF HasItem(prev, record.id)
    THEN [i \in 1..Len(prev) |->
            IF prev[i].id = record.id THEN transformRecord(record) ELSE prev[i]]
    ELSE IF isListed(record) THEN <<transformRecord(record)>> \o prev ELSE prev

onUpdate(prev, record) ==
    IF isListed(record)
    THEN IF HasItem(prev, record.id)
         THEN [i \in 1..Len(prev) |->
                 IF prev[i].id = record.id THEN transformRecord(record) ELSE prev[i]]
         ELSE <<transformRecord(record)>> \o prev
    ELSE FilterOut(prev, record.id)

onDelete(prev, record) == FilterOut(prev, record.id)

\* Faulty variant: the fallback keeps hidden records.
visibleProducts_All(records) == records

\* recordsWithoutFilter.filter(record => !record.hidden)
visibleProducts(records) ==
    LET NotHidden(r) == ~r.hidden
    IN  SelectSeq(records, NotHidden)

\* A realtime event of the products collection reaches the grid.
OnCatalogEvent(action, record) ==
    /\ pcFetch # "unmounted"
    /\ products' = CASE action = "create" -> onCreate(products, record)
                      [] action = "update" -> onUpdate(products, record)
                      [] action = "delete" -> onDelete(products, record)
    /\ Len(products') <= MaxList
    /\ lastOp' = Op(action, record.id, 0)
    /\ UNCHANGED <<gridLoading, pcFetch>>

\* The filtered query of fetchProducts returns (ok) or throws; on a throw the
\* unfiltered query is issued.
FilteredQueryReturns(store, ok) ==
    /\ pcFetch = "filtered"
    /\ IF ok
       THEN /\ LET records == getFullList(store, TRUE)
               IN  products' = [i \in 1..Len(records) |-> transformRecord(records[i])]
            /\ gridLoading' = FALSE
            /\ pcFetch' = "done"
            /\ lastOp' = Op("fetched", "", 0)
       ELSE /\ pcFetch' = "unfiltered"
            /\ lastOp' = Op("filteredFailed", "", 0)
            /\ UNCHANGED <<products, gridLoading>>

\* The unfiltered query returns (ok) or throws; the finally of fetchProducts.
UnfilteredQueryReturns(store, ok) ==
    /\ pcFetch = "unfiltered"
    /\ IF ok
       THEN /\ LET visible == visibleProducts(getFullList(store, FALSE))
               IN  products' = [i \in 1..Len(visible) |-> transformFallback(visible[i])]
            /\ lastOp' = Op("fetchedFallback", "", 0)
       ELSE /\ products' = <<>>
            /\ lastOp' = Op("fetchFailed", "", 0)
    /\ gridLoading' = FALSE
    /\ pcFetch' = "done"

\* No ProductGrid is mounted.
GridUnmounted ==
    /\ products = <<>>
    /\ gridLoading = TRUE
    /\ pcFetch = "unmounted"

\* ------------------------------------------- catalog grid and record store
\* The records the products collection holds: in stock, shown or hidden.
CollectionRecords ==
    {r \in GridRecords : r.display_order = 0 /\ r.sale_price = 0 /\ r.in_stock}

StoreIds(store) == {r.id : r \in store}

\* The collection as getFullList({sort: '-display_order,-created'}) lists it.
Listing(store) ==
    CHOOSE l \in [1..Cardinality(store) -> store] :
        /\ {l[i] : i \in 1..Cardinality(store)} = store
        /\ StoreOrdered(l)

\* An administrator creates a product (AddProductModal); the store queues a
\* 'create' event for the grid's subscription.
StoreCreate(record) ==
    /\ record.id \notin StoreIds(productStore)
    /\ Len(eventQueue) < MaxPending
    /\ productStore' = productStore \cup {record}
    /\ eventQueue' = Append(eventQueue, [action |-> "create", record |-> record])
    /\ UNCHANGED <<gridVars, lastOp, fetchAnswer>>

\* An administrator edits, hides or shows a product (toggleProductVisibility,
\* EditProduct); the store queues an 'update' event.
StoreUpdate(record) ==
    /\ record.id \in StoreIds(productStore)
    /\ record \notin productStore
    /\ Len(eventQueue) < MaxPending
    /\ productStore' = {r \in productStore : r.id # record.id} \cup {record}
    /\ eventQueue' = Append(eventQueue, [action |-> "update", record |-> record])
    /\ UNCHANGED <<gridVars, lastOp, fetchAnswer>>

\* A product is deleted from the collection; the store queues a 'delete'
\* event.
StoreDelete(record) ==
    /\ record \in productStore
    /\ Len(eventQueue) < MaxPending
    /\ productStore' = productStore \ {record}
    /\ eventQueue' = Append(eventQueue, [action |-> "delete", record |-> record])
    /\ UNCHANGED <<gridVars, lastOp, fetchAnswer>>

\* The oldest waiting event reaches the subscription callback.
DeliverEvent ==
    /\ eventQueue # <<>>
    /\ OnCatalogEvent(Head(eventQueue).action, Head(eventQueue).record)
    /\ eventQueue' = Tail(eventQueue)
    /\ UNCHANGED <<productStore, fetchAnswer>>

\* The store answers the getFullList in flight from what it holds then.
StoreAnswersQuery ==
    /\ pcFetch \in {"filtered", "unfiltered"}
    /\ fetchAnswer = None
    /\ fetchAnswer' = Some(Listing(productStore))
    /\ UNCHANGED <<gridVars, lastOp, productStore, eventQueue>>

\* The answer reaches fetchProducts, which continues after its await.
AnswerDelivered ==
    /\ fetchAnswer # None
    /\ \/ FilteredQueryReturns(Val(fetchAnswer), TRUE)
       \/ UnfilteredQueryReturns(Val(fetchAnswer), TRUE)
    /\ fetchAnswer' = None
    /\ UNCHANGED <<productStore, eventQueue>>

\* The getFullList in flight throws.
QueryFails ==
    /\ fetchAnswer = None
    /\ \/ FilteredQueryReturns(<<>>, FALSE)
       \/ UnfilteredQueryReturns(<<>>, FALSE)
    /\ UNCHANGED catalogVars

\* ------------------------------------------------------- several shoppers
\* Each shopper has a browser of their own: a cart, and a run of
\* handlePaymentSuccess against the one record store. A shopper's catalog
\* view was fetched before any purchase, so it shows the stock of that time.
Shoppers == 1..NumShoppers
SoldId == "A"
ViewedProduct ==
    [id |-> SoldId, price |-> 10, sale_price |-> None, stock |-> Some(initialStock)]

\* The add-to-cart button of the shopper's view.
ShopperAddToCart(s) ==
    /\ shoppers[s].pc = "shopping"
    /\ addToCart(shoppers[s].cart, ViewedProduct) # shoppers[s].cart
    /\ shoppers' = [shoppers EXCEPT ![s].cart = addToCart(shoppers[s].cart, ViewedProduct)]
    /\ UNCHANGED <<orderItems, storeStock, initialStock>>

\* The shopper checks out and pays; the order record is created and the
\* order-item requests are issued.
ShopperPays(s) ==
    /\ shoppers[s].pc = "shopping"
    /\ shoppers[s].cart # <<>>
    /\ shoppers' = [shoppers EXCEPT ![s].pc = "items"]
    /\ UNCHANGED <<orderItems, storeStock, initialStock>>

\* The order items of the shopper's order are created; the stock reads are
\* issued.
ShopperItemsCreated(s) ==
    /\ shoppers[s].pc = "items"
    /\ orderItems' = orderItems \cup
          {OrderItemData(s, shoppers[s].cart[i]) : i \in 1..Len(shoppers[s].cart)}
    /\ shoppers' = [shoppers EXCEPT ![s].pc = "read"]
    /\ UNCHANGED <<storeStock, initialStock>>

\* The read of the product returns; the new stock is computed and its write
\* issued.
ShopperStockRead(s) ==
    /\ shoppers[s].pc = "read"
    /\ shoppers' = [shoppers EXCEPT
          ![s].newStock = DecrementedStock(storeStock[SoldId], shoppers[s].cart[1].quantity),
          ![s].pc = "write"]
    /\ UNCHANGED <<orderItems, storeStock, initialStock>>

\* The write of the new stock returns; the run ends.
ShopperStockWrite(s) ==
    /\ shoppers[s].pc = "write"
    /\ storeStock' = [storeStock EXCEPT ![SoldId] = shoppers[s].newStock]
    /\ shoppers' = [shoppers EXCEPT ![s].pc = "done"]
    /\ UNCHANGED <<orderItems, initialStock>>

\* No shopper is modelled.
NoShoppers ==
    /\ shoppers = <<>>
    /\ initialStock = 0

\* ------------------------------------------------------ orders management
\* The orders of the collection, newest first (sort: '-created').
OrdersByCreated == <<"o2", "o1">>
OrderIds == {OrdersByCreated[i] : i \in 1..Len(OrdersByCreated)}
\* Three of the values of Order['status'].
Statuses == {"pending", "paid", "shipped"}

\* The local order list: the orders collection as fetchOrders lists it.
FetchedOrders(store) ==
    [i \in 1..Len(OrdersByCreated) |->
        [id |-> OrdersByCreated[i], status |-> store[OrdersByCreated[i]]]]

\* orders.find(order => order.id === orderId)
orderExists(list, orderId) == \E i \in 1..Len(list) : list[i].id = orderId

\* prevOrders.map(order => order.id === orderId ? {...order, status} : order)
WithStatus(list, orderId, newStatus) ==
    [i \in 1..Len(list) |->
        IF list[i].id = orderId THEN [list[i] EXCEPT !.status = newStatus] ELSE list[i]]

\* The tail of updateOrderStatus once updateSuccessful is set: the local list
\* is updated and the success toast shown.
AdminUpdateCompleted(strategy, toasts) ==
    /\ adminOrders' = WithStatus(adminOrders, adminReq.orderId, adminReq.newStatus)
    /\ adminToast' = toasts \cup {"Success"}
    /\ adminReq' = [adminReq EXCEPT !.strategy = strategy]
    /\ pcAdmin' = "idle"

\* updateOrderStatus(orderId, newStatus) is called from the status select of
\* a listed order and the direct update is issued; for an order the list
\* does not hold, the list is fetched again.
updateOrderStatus(orderId, newStatus) ==
    /\ pcAdmin = "idle"
    /\ adminReq' = [orderId |-> orderId, newStatus |-> newStatus, strategy |-> 0]
    /\ IF orderExists(adminOrders, orderId)
       THEN /\ pcAdmin' = "direct"
            /\ adminToast' = {}
            /\ UNCHANGED <<orderStore, adminOrders>>
       ELSE /\ pcAdmin' = "refetch"
            /\ adminToast' = {}
            /\ UNCHANGED <<orderStore, adminOrders>>

\* fetchOrders, awaited for an order the list does not hold, returns (ok) or
\* throws and shows its own error; the 'Order not found' error follows.
FetchOrdersReturns(ok) ==
    /\ pcAdmin = "refetch"
    /\ adminOrders' = IF ok THEN FetchedOrders(orderStore) ELSE adminOrders
    /\ adminToast' = {"Error"}
    /\ pcAdmin' = "idle"
    /\ UNCHANGED <<orderStore, adminReq>>

\* Strategy 1, pb.collection('orders').update, returns (ok) or throws; on a
\* throw the raw HTTP request is issued.
DirectUpdateReturns(ok) ==
    /\ pcAdmin = "direct"
    /\ IF ok
       THEN /\ orderStore' = [orderStore EXCEPT ![adminReq.orderId] = adminReq.newStatus]
            /\ AdminUpdateCompleted(1, adminToast)
       ELSE /\ pcAdmin' = "http"
            /\ UNCHANGED <<orderStore, adminOrders, adminToast, adminReq>>

\* Strategy 2, the PATCH request, is answered ok or not; when it is not,
\* strategy 3 sets updateSuccessful and shows a warning.
HttpUpdateReturns(ok) ==
    /\ pcAdmin = "http"
    /\ IF ok
       THEN /\ orderStore' = [orderStore EXCEPT ![adminReq.orderId] = adminReq.newStatus]
            /\ AdminUpdateCompleted(2, adminToast)
       ELSE /\ UNCHANGED orderStore
            /\ AdminUpdateCompleted(3, adminToast \cup {"Warning"})

\* ------------------------------------------------------------ OAuth sign-in
\* Values of the random STATE of signInWithGoogle.
OAuthStates == {"s1", "s2"}

\* The parameters of a callback URL: state (absent or a value), error, code
\* and id_token (present or not).
CallbackParams ==
    [state : {None} \cup {Some(st) : st \in OAuthStates},
     error : BOOLEAN, code : BOOLEAN, id_token : BOOLEAN]

NoCallback == <<>>

\* signInWithGoogle: the state is stored and the browser leaves for the
\* provider.
signInWithGoogle(state) ==
    /\ pcCallback = "idle"
    /\ oauth_state' = Some(state)
    /\ UNCHANGED <<authStore, pcCallback, callback>>

\* signOut, from any tab of the browser.
signOut ==
    /\ authStore # None \/ oauth_state # None
    /\ authStore' = None
    /\ oauth_state' = None
    /\ UNCHANGED <<pcCallback, callback>>

\* The callback page ends without a session of its own: the catch of
\* handleOAuthCallback, or its early return.
CallbackEnds(params, outcome) ==
    /\ callback' = [params |-> params, storedState |-> oauth_state, outcome |-> outcome]
    /\ pcCallback' = "idle"
    /\ UNCHANGED <<oauth_state, authStore>>

\* handleOAuthCallback from the mount of the callback page to its first
\* await: the checks of the URL parameters, the early return for a valid
\* auth store, and the verification of the state parameter.
handleOAuthCallback(params) ==
    /\ pcCallback = "idle"
    /\ IF params.error
       THEN CallbackEnds(params, "failed")
       ELSE IF ~params.code /\ ~params.id_token
       THEN CallbackEnds(params, "failed")
       ELSE IF authStore # None
       THEN CallbackEnds(params, "alreadySignedIn")
       ELSE IF oauth_state # None /\ params.state # oauth_state
       THEN CallbackEnds(params, "failed")
       ELSE /\ oauth_state' = None
            /\ callback' = [params |-> params, storedState |-> oauth_state,
                             outcome |-> "pending"]
            /\ pcCallback' = "findUser"
            /\ UNCHANGED authStore

\* pb.authStore.save(oauthToken, actualUser) and the end of the handler.
SaveSession(actualUser) ==
    /\ authStore' = Some(actualUser)
    /\ callback' = [callback EXCEPT !.outcome = "saved"]
    /\ pcCallback' = "idle"
    /\ UNCHANGED oauth_state

\* The search for an existing user returns one (found), or none, or throws.
FindUserReturns(found) ==
    /\ pcCallback = "findUser"
    /\ IF found
       THEN SaveSession("existing")
       ELSE /\ pcCallback' = "createUser"
            /\ UNCHANGED <<oauth_state, authStore, callback>>

\* The creation of the user returns (ok) or throws.
CreateUserReturns(ok) ==
    /\ pcCallback = "createUser"
    /\ IF ok
       THEN SaveSession("created")
       ELSE /\ pcCallback' = "recheck"
            /\ UNCHANGED <<oauth_state, authStore, callback>>

\* The second search returns a user (found); when it returns none or throws,
\* a virtual user is used.
RecheckReturns(found) ==
    /\ pcCallback = "recheck"
    /\ SaveSession(IF found THEN "existing" ELSE "virtual")

\* -------------------------------------------------- components not mounted
\* No products collection is modelled.
NoCatalogStore ==
    /\ productStore = {}
    /\ eventQueue = <<>>
    /\ fetchAnswer = None

\* OrdersManagement is not mounted.
NoAdmin ==
    /\ orderStore = <<>>
    /\ adminOrders = <<>>
    /\ adminToast = {}
    /\ pcAdmin = "idle"
    /\ adminReq = <<>>

\* No sign-in was started and no callback page is open.
NoOAuth ==
    /\ oauth_state = None
    /\ authStore = None
    /\ pcCallback = "idle"
    /\ callback = <<>>

RestIdle == NoCatalogStore /\ NoAdmin /\ NoOAuth

\* ---------------------------------------------------------- specifications
\* The Checkout component as mounted: shipping step, nothing in flight.
CheckoutIdle ==
    /\ currentStep = "shipping"
    /\ clientSecret = ""
    /\ loading = FALSE
    /\ toast = {}
    /\ navigated = FALSE
    /\ pcProceed = "idle"
    /\ submittedInfo = InitialShippingInfo(None)
    /\ intentAmount = 0
    /\ processing = FALSE
    /\ pcPay = "idle"
    /\ intentStatus = "none"
    /\ pcFin = "idle"
    /\ orderData = NoOrderData
    /\ itemReq = <<>>
    /\ stockReq = <<>>
    /\ orders = <<>>
    /\ orderItems = {}
    /\ events = <<>>

\* The cart container alone.
Init ==
    /\ CartInit
    /\ CheckoutIdle
    /\ user = None
    /\ shippingInfo = InitialShippingInfo(None)
    /\ newStock = <<>>
    /\ storeStock = [id \in ProductIds |-> 0]
    /\ GridUnmounted
    /\ NoShoppers
    /\ RestIdle

Next ==
    /\ CartNext
    /\ UNCHANGED <<shippingVars, paymentVars, finalizeVars, storeVars, events, otherVars>>

Spec == Init /\ [][Next]_vars

\* The carts a checkout is entered with: one or two lines; line A has a sale
\* price below or above its price.
CheckoutLines(id) ==
    {CartItem(p, q) : p \in {x \in Products : x.id = id /\ x.stock = Some(MaxStock)
                                               /\ (id = "A" => x.sale_price = Some(8))},
                      q \in 1..MaxQty}
CheckoutCarts ==
    {<<a>> : a \in CheckoutLines("A")}
      \cup {<<b>> : b \in CheckoutLines("B")}
      \cup {<<a, b>> : a \in CheckoutLines("A"), b \in CheckoutLines("B")}

\* The shipping step of a checkout: the form, its submission, the payment
\* intent, and the way back from the payment step.
ShippingInit ==
    /\ cart \in {c \in CheckoutCarts : Len(c) = 2 /\ \A i \in 1..2 : c[i].quantity = 1}
    /\ lastOp = NoOp
    /\ addRun = NoRun
    /\ CheckoutIdle
    /\ user \in {None, Some(RegularUser)}
    /\ shippingInfo = InitialShippingInfo(user)
    /\ newStock = <<>>
    /\ storeStock = [id \in ProductIds |-> MaxStock]
    /\ GridUnmounted
    /\ NoShoppers
    /\ RestIdle

ShippingNext ==
    \/ \E field \in ShippingFields, value \in FieldValues : HandleInputChange(field, value)
    \/ HandleShippingSubmit
    \/ \E ok \in BOOLEAN : proceedToPayment(ok)
    \/ BackToShipping

ShippingSpec == ShippingInit /\ [][ShippingNext]_vars

\* The payment step of a checkout whose payment intent was created: the
\* payment, then handlePaymentSuccess against the record store.
CheckoutInit ==
    /\ cart \in CheckoutCarts
    /\ lastOp = NoOp
    /\ addRun = NoRun
    /\ user \in Users
    /\ shippingInfo = FilledShippingInfo
    /\ submittedInfo = FilledShippingInfo
    /\ currentStep = "payment"
    /\ clientSecret = Secret
    /\ intentAmount = OrderTotal(cart)
    /\ intentStatus = "requires_payment"
    /\ loading = FALSE
    /\ toast = {"payment_ready"}
    /\ navigated = FALSE
    /\ pcProceed = "idle"
    /\ processing = FALSE
    /\ pcPay = "idle"
    /\ pcFin = "idle"
    /\ orderData = NoOrderData
    /\ itemReq = [i \in 1..Len(cart) |-> "idle"]
    /\ stockReq = [i \in 1..Len(cart) |-> "idle"]
    /\ newStock = [i \in 1..Len(cart) |-> 0]
    /\ orders = <<>>
    /\ orderItems = {}
    /\ storeStock \in [ProductIds -> 0..MaxStock]
    /\ events = <<>>
    /\ GridUnmounted
    /\ NoShoppers
    /\ RestIdle

CheckoutNext ==
    \/ HandleSubmit
    \/ \E ok \in BOOLEAN : ConfirmPaymentReturns(ok)
    \/ \E found \in BOOLEAN : VerifyUserReturns(found)
    \/ \E ok \in BOOLEAN : CreateOrderReturns(ok)
    \/ \E i \in 1..Len(itemReq), ok \in BOOLEAN : ItemRequestReturns(i, ok)
    \/ \E i \in 1..Len(stockReq), ok \in BOOLEAN : StockReadReturns(i, ok)
    \/ \E i \in 1..Len(stockReq), ok \in BOOLEAN : StockWriteReturns(i, ok)

CheckoutSpec == CheckoutInit /\ [][CheckoutNext]_vars

\* One purchase, from the filled shipping form to the confirmation view,
\* without a way back from the payment step, with realtime price updates. The carts hold one or two lines
\* whose subtotals lie on both sides of the free-shipping threshold.
PurchaseProducts ==
    [id : {"A"}, price : {20, 25, 30}, sale_price : {None}, stock : {Some(MaxStock)}]
PurchaseCarts ==
    {<<CartItem(a, q)>> : a \in PurchaseProducts, q \in 1..MaxQty}
      \cup {<<CartItem(a, q), b>> : a \in PurchaseProducts, q \in 1..MaxQty,
                                     b \in {l \in CheckoutLines("B") : l.quantity = 1}}

PurchaseInit ==
    /\ cart \in PurchaseCarts
    /\ lastOp = NoOp
    /\ addRun = NoRun
    /\ user \in Users
    /\ shippingInfo = FilledShippingInfo
    /\ submittedInfo = InitialShippingInfo(user)
    /\ currentStep = "shipping"
    /\ clientSecret = ""
    /\ intentAmount = 0
    /\ intentStatus = "none"
    /\ loading = FALSE
    /\ toast = {}
    /\ navigated = FALSE
    /\ pcProceed = "idle"
    /\ processing = FALSE
    /\ pcPay = "idle"
    /\ pcFin = "idle"
    /\ orderData = NoOrderData
    /\ itemReq = [i \in 1..Len(cart) |-> "idle"]
    /\ stockReq = [i \in 1..Len(cart) |-> "idle"]
    /\ newStock = [i \in 1..Len(cart) |-> 0]
    /\ orders = <<>>
    /\ orderItems = {}
    /\ storeStock \in [ProductIds -> {0, MaxStock}]
    /\ events = <<>>
    /\ GridUnmounted
    /\ NoShoppers
    /\ RestIdle

\* The price updates pushed for product A during a purchase.
PurchaseRecords ==
    [id : {"A"}, price : {20, 25, 30}, sale_price : {0}, stock : {Some(MaxStock)}]

\* The cart container's subscription callback while the Checkout page is
\* shown and neither a payment nor handlePaymentSuccess is in flight.
OnProductEventAtCheckout(rec) ==
    /\ ~navigated
    /\ pcPay = "idle"
    /\ pcFin = "idle"
    /\ HasItem(cart, rec.id)
    /\ FindItem(cart, rec.id).price # rec.price
    /\ OnProductEvent("update", rec)
    /\ UNCHANGED <<shippingVars, paymentVars, finalizeVars, storeVars, events, otherVars>>

PurchaseNext ==
    \/ HandleShippingSubmit
    \/ \E ok \in BOOLEAN : proceedToPayment(ok)
    \/ \E rec \in PurchaseRecords : OnProductEventAtCheckout(rec)
    \/ CheckoutNext

PurchaseSpec == PurchaseInit /\ [][PurchaseNext]_vars

\* The catalog grid from its mount: fetchProducts is in flight, the
\* subscription delivers events of any record.
GridInit ==
    /\ CartInit
    /\ CheckoutIdle
    /\ user = None
    /\ shippingInfo = InitialShippingInfo(None)
    /\ newStock = <<>>
    /\ storeStock = [id \in ProductIds |-> 0]
    /\ products = <<>>
    /\ gridLoading = TRUE
    /\ pcFetch = "filtered"
    /\ NoShoppers
    /\ RestIdle

GridNext ==
    /\ \/ \E action \in {"create", "update", "delete"} :
             \E record \in CatalogEventRecords(action) : OnCatalogEvent(action, record)
       \/ \E store \in StoreLists, ok \in BOOLEAN : FilteredQueryReturns(store, ok)
       \/ \E store \in StoreLists, ok \in BOOLEAN : UnfilteredQueryReturns(store, ok)
    /\ UNCHANGED <<cart, addRun, shippingVars, paymentVars, finalizeVars, storeVars, events,
                   shopperVars, restVars>>

GridSpec == GridInit /\ [][GridNext]_vars

\* Shoppers buying one product at the same time, every request succeeding.
ShoppersInit ==
    /\ CartInit
    /\ CheckoutIdle
    /\ user = None
    /\ shippingInfo = InitialShippingInfo(None)
    /\ newStock = <<>>
    /\ GridUnmounted
    /\ initialStock \in 1..MaxStock
    /\ storeStock = [id \in ProductIds |-> IF id = SoldId THEN initialStock ELSE 0]
    /\ shoppers = [s \in Shoppers |-> [cart |-> <<>>, pc |-> "shopping", newStock |-> 0]]
    /\ RestIdle

ShoppersNext ==
    /\ \/ \E s \in Shoppers : ShopperAddToCart(s)
       \/ \E s \in Shoppers : ShopperPays(s)
       \/ \E s \in Shoppers : ShopperItemsCreated(s)
       \/ \E s \in Shoppers : ShopperStockRead(s)
       \/ \E s \in Shoppers : ShopperStockWrite(s)
    /\ UNCHANGED <<cartVars, shippingVars, paymentVars, finalizeVars, orders, events, gridVars,
                   restVars>>

ShoppersSpec == ShoppersInit /\ [][ShoppersNext]_vars

\* The catalog grid from its mount against a products collection that
\* administrators change: the subscription is established, fetchProducts is
\* in flight, nothing is waiting.
CatalogInit ==
    /\ CartInit
    /\ CheckoutIdle
    /\ user = None
    /\ shippingInfo = InitialShippingInfo(None)
    /\ newStock = <<>>
    /\ storeStock = [id \in ProductIds |-> 0]
    /\ products = <<>>
    /\ gridLoading = TRUE
    /\ pcFetch = "filtered"
    /\ productStore \in {st \in SUBSET CollectionRecords :
                            \A r1, r2 \in st : r1.id = r2.id => r1 = r2}
    /\ eventQueue = <<>>
    /\ fetchAnswer = None
    /\ NoShoppers
    /\ NoAdmin
    /\ NoOAuth

CatalogNext ==
    /\ \/ \E record \in CollectionRecords : StoreCreate(record)
       \/ \E record \in CollectionRecords : StoreUpdate(record)
       \/ \E record \in CollectionRecords : StoreDelete(record)
       \/ DeliverEvent
       \/ StoreAnswersQuery
       \/ AnswerDelivered
       \/ QueryFails
    /\ UNCHANGED <<cart, addRun, shippingVars, paymentVars, finalizeVars, storeVars, events,
                   shopperVars, adminVars, oauthVars>>

CatalogSpec == CatalogInit /\ [][CatalogNext]_vars

\* OrdersManagement with its list fetched, the newest order created before or
\* after that fetch; every update request may succeed or fail.
AdminInit ==
    /\ CartInit
    /\ CheckoutIdle
    /\ user = None
    /\ shippingInfo = InitialShippingInfo(None)
    /\ newStock = <<>>
    /\ storeStock = [id \in ProductIds |-> 0]
    /\ GridUnmounted
    /\ NoShoppers
    /\ NoCatalogStore
    /\ NoOAuth
    /\ orderStore \in [OrderIds -> Statuses]
    /\ adminOrders \in {FetchedOrders(orderStore), Tail(FetchedOrders(orderStore))}
    /\ adminToast = {}
    /\ pcAdmin = "idle"
    /\ adminReq = [orderId |-> "", newStatus |-> "", strategy |-> 0]

AdminNext ==
    /\ \/ \E orderId \in OrderIds, newStatus \in Statuses : updateOrderStatus(orderId, newStatus)
       \/ \E ok \in BOOLEAN : FetchOrdersReturns(ok)
       \/ \E ok \in BOOLEAN : DirectUpdateReturns(ok)
       \/ \E ok \in BOOLEAN : HttpUpdateReturns(ok)
    /\ UNCHANGED <<cartVars, shippingVars, paymentVars, finalizeVars, storeVars, events,
                   gridVars, shopperVars, catalogVars, oauthVars>>

AdminSpec == AdminInit /\ [][AdminNext]_vars

\* A browser in which no sign-in with Google is pending, signed in or not;
\* sign-ins are started, and callback URLs of any parameters are opened.
OAuthInit ==
    /\ CartInit
    /\ CheckoutIdle
    /\ user = None
    /\ shippingInfo = InitialShippingInfo(None)
    /\ newStock = <<>>
    /\ storeStock = [id \in ProductIds |-> 0]
    /\ GridUnmounted
    /\ NoShoppers
    /\ NoCatalogStore
    /\ NoAdmin
    /\ oauth_state = None
    /\ authStore \in {None, Some("password")}
    /\ pcCallback = "idle"
    /\ callback = NoCallback

OAuthNext ==
    /\ \/ \E state \in OAuthStates : signInWithGoogle(state)
       \/ signOut
       \/ \E params \in CallbackParams : handleOAuthCallback(params)
       \/ \E found \in BOOLEAN : FindUserReturns(found)
       \/ \E ok \in BOOLEAN : CreateUserReturns(ok)
       \/ \E found \in BOOLEAN : RecheckReturns(found)
    /\ UNCHANGED <<cartVars, shippingVars, paymentVars, finalizeVars, storeVars, events,
                   gridVars, shopperVars, catalogVars, adminVars>>

OAuthSpec == OAuthInit /\ [][OAuthNext]_vars

\* ------------------------------------------------------------ cart claims
\* C1: every cart entry whose stock count is known has quantity <= that
\* stock count, in every reachable cart state.
C1_QuantityWithinStock ==
    \A i \in 1..Len(cart) :
        IsDefined(cart[i].stock) => cart[i].quantity <= Val(cart[i].stock)

\* C2: every entry present in the cart has quantity >= 1, in every reachable
\* cart state.
C2_QuantityAtLeastOne ==
    \A i \in 1..Len(cart) : cart[i].quantity >= 1

\* C3: after n <= S+1 calls of addToCart(P) on an empty cart, P of known
\* stock S, the cart holds exactly min(n, S) units of P and nothing else: the
\* first S calls add one unit each, the (S+1)th changes nothing, and for
\* S = 0 the cart stays empty.
C3_AddUpToStock ==
    (addRun.n > 0 /\ addRun.n <= Val(addRun.p.stock) + 1) =>
        LET S == Val(addRun.p.stock)
            k == IF addRun.n <= S THEN addRun.n ELSE S
        IN  cart = IF k = 0 THEN <<>> ELSE <<CartItem(addRun.p, k)>>

C3_Witness ==
    /\ addRun.n = MaxStock + 1
    /\ addRun.p.stock = Some(MaxStock)
    /\ Len(cart) = 1
    /\ cart[1].quantity = MaxStock

C4_Effective(e) ==
    IF e.sale_price # None /\ 0 < e.sale_price[1] /\ e.sale_price[1] < e.price
    THEN e.sale_price[1]
    ELSE e.price

RECURSIVE C4_Sum(_, _)
C4_Sum(c, n) == IF n = 0 THEN 0 ELSE C4_Sum(c, n - 1) + C4_Effective(c[n]) * c[n].quantity

C4_Example ==
    <<[id |-> "A", price |-> 10, sale_price |-> Some(8), stock |-> Some(2), quantity |-> 2],
      [id |-> "B", price |-> 5, sale_price |-> None, stock |-> Some(1), quantity |-> 1]>>

\* C4: getTotalPrice() equals the sum over the entries of effective price x
\* quantity, the effective price being sale_price when 0 < sale_price < price
\* and price otherwise; it is 0 for the empty cart and 21 for the cart
\* {price 10, sale 8, qty 2}, {price 5, qty 1}.
C4_TotalPrice ==
    /\ getTotalPrice(cart) = C4_Sum(cart, Len(cart))
    /\ cart = <<>> => getTotalPrice(cart) = 0
    /\ cart = C4_Example => getTotalPrice(cart) = 21

C4_Witness ==
    /\ cart = C4_Example
    /\ getTotalPrice(cart) = 21

C5_Without(c, id) == LET Keep(e) == e.id # id IN SelectSeq(c, Keep)

C5_Post(id, q) ==
    IF q <= 0
    THEN cart' = C5_Without(cart, id)
    ELSE /\ Len(cart') = Len(cart)
         /\ \A i \in 1..Len(cart) :
               IF cart[i].id # id
               THEN cart'[i] = cart[i]
               ELSE cart'[i] =
                      [cart[i] EXCEPT !.quantity =
                          IF cart[i].stock # None /\ q > cart[i].stock[1]
                          THEN cart[i].stock[1]
                          ELSE q]

\* C5: updateQuantity(id, q) on an entry in the cart removes the entry when
\* q <= 0, sets its quantity to its known stock when q exceeds that stock,
\* and sets it to q otherwise; the entries of other ids are unchanged.
C5_UpdateQuantity ==
    [][(lastOp'.op = "updateQuantity" /\ HasItem(cart, lastOp'.id))
          => C5_Post(lastOp'.id, lastOp'.q)]_vars

C5_Witness ==
    /\ lastOp.op = "updateQuantity"
    /\ Len(cart) = 2
    /\ HasItem(cart, lastOp.id)
    /\ FindItem(cart, lastOp.id).stock # None
    /\ FindItem(cart, lastOp.id).quantity = FindItem(cart, lastOp.id).stock[1]
    /\ lastOp.q > FindItem(cart, lastOp.id).quantity
    /\ FindItem(cart, lastOp.id).quantity >= 1

\* C6: updateProductInCart for a product id that is in the cart keeps the
\* entry's quantity and replaces each other field of the entry by the pushed
\* product's value; the cart keeps its length and its other entries.
C6_ReconcileKeepsQuantity ==
    [][lastOp'.op = "update" =>
          /\ Len(cart') = Len(cart)
          /\ \A i \in 1..Len(cart) :
                IF cart[i].id = lastOp'.p.id
                THEN /\ cart'[i].quantity = cart[i].quantity
                     /\ cart'[i].id = lastOp'.p.id
                     /\ cart'[i].price = lastOp'.p.price
                     /\ cart'[i].sale_price = lastOp'.p.sale_price
                     /\ cart'[i].stock = lastOp'.p.stock
                ELSE cart'[i] = cart[i]]_vars

C6_Witness ==
    /\ lastOp.op = "update"
    /\ Len(cart) = 2
    /\ HasItem(cart, lastOp.id)
    /\ FindItem(cart, lastOp.id).price = 5
    /\ FindItem(cart, lastOp.id).sale_price = Some(8)
    /\ FindItem(cart, lastOp.id).quantity = MaxQty

\* -------------------------------------------------------- checkout claims
Pos(e) == CHOOSE i \in 1..Len(events) : events[i] = e
Happened(e) == e \in Range(events)
Before(a, b) == Happened(a) /\ Happened(b) /\ Pos(a) < Pos(b)

\* C7 as claimed: the order record is persisted before the payment is
\* confirmed, and stock is updated only after the payment is confirmed.
C7_OrderBeforePayment ==
    /\ Happened("payment_confirmed") => Before("order_persisted", "payment_confirmed")
    /\ Happened("stock_updated") => Before("payment_confirmed", "stock_updated")

\* C7, amended: the payment is confirmed before the order record is
\* persisted, and stock is updated only after the order record is persisted
\* (payment confirmation, persisted order, updated inventory, in that order).
C7_PaymentBeforeOrder ==
    /\ (Happened("order_persisted") \/ orders # <<>>) => Before("payment_confirmed", "order_persisted")
    /\ Happened("stock_updated") => Before("order_persisted", "stock_updated")
    /\ orders # <<>> => intentStatus = "succeeded"

C7_Witness ==
    /\ events = <<"payment_confirmed", "order_persisted", "stock_updated">>
    /\ orders # <<>>
    /\ pcFin = "done"

RunOver == pcFin \in {"done", "failed"}
SomeItemFailed == \E i \in 1..Len(itemReq) : itemReq[i] = "failed"
SomeStockFailed == \E i \in 1..Len(stockReq) : stockReq[i] = "failed"

\* C8: when the creation of an order item fails, the stock decrement is
\* still attempted for every cart line.
C8_StockAttemptedAfterItemFailure ==
    (RunOver /\ orders # <<>> /\ SomeItemFailed) =>
        \A i \in 1..Len(stockReq) : stockReq[i] # "idle"

OrderStays == Len(orders) = 1 /\ orders[1] = orderData /\ orders[1].status = "paid"

\* C9 as claimed: after a failed order-item creation or stock update the
\* order record stays as created, and the only effect the shopper sees is an
\* error toast.
C9_OnlyErrorToast ==
    (RunOver /\ orders # <<>> /\ (SomeItemFailed \/ SomeStockFailed)) =>
        /\ OrderStays
        /\ "order_error" \in toast
        /\ "order_ok" \notin toast

\* C9, amended: the order record stays as created whatever fails after it; a
\* failed order-item creation ends the run with an error toast, the cart kept
\* and no navigation; a failed stock update is only logged: the run ends with
\* the success toast, the cart cleared and the confirmation view.
C9_NoRollback ==
    /\ Happened("order_persisted") => OrderStays
    /\ (orders # <<>> /\ SomeItemFailed) =>
          /\ pcFin = "failed"
          /\ "order_error" \in toast /\ "order_ok" \notin toast
          /\ ~navigated /\ cart # <<>>
    /\ (RunOver /\ orders # <<>> /\ ItemsCreated(itemReq) /\ SomeStockFailed) =>
          /\ pcFin = "done"
          /\ "order_ok" \in toast /\ "order_error" \notin toast
          /\ navigated /\ cart = <<>>

\* An order in the store whose stock update failed: the stock is stale and
\* the shopper is on the confirmation view.
C9_Witness ==
    /\ pcFin = "done"
    /\ OrderStays
    /\ \A i \in 1..Len(stockReq) : stockReq[i] = "failed"
    /\ Cardinality(orderItems) = Len(stockReq)
    /\ "order_ok" \in toast
    /\ navigated

\* C10: the step changes from shipping to payment only when every shipping
\* field (firstName, lastName, email, phone, address, city, postalCode,
\* country) is non-empty and a client secret was returned and is held; after
\* a failed validation or a failed payment-intent request the step is still
\* shipping and no payment form is shown.
C10_ShippingToPayment ==
    [][/\ (currentStep = "shipping" /\ currentStep' = "payment") =>
             /\ \A f \in ShippingFields : shippingInfo'[f] # ""
             /\ clientSecret' # ""
       /\ lastOp'.op \in {"submitBlocked", "submitInvalid", "intentFailed"} =>
             /\ currentStep' = "shipping"
             /\ ~PaymentFormShown']_vars

\* What the code does keep of C10: the fields were all non-empty when the
\* form was submitted (they can be edited while the request is in flight).
C10_SubmittedFieldsValidated ==
    [][/\ (currentStep = "shipping" /\ currentStep' = "payment") =>
             /\ \A f \in ShippingFields : submittedInfo[f] # ""
             /\ pcProceed = "awaitIntent"
             /\ lastOp'.op = "intentCreated"
       /\ currentStep' = "payment" => clientSecret' # ""
       /\ lastOp'.op \in {"submitBlocked", "submitInvalid", "intentFailed"} =>
             /\ currentStep' = "shipping"
             /\ ~PaymentFormShown'
             /\ pcProceed' = "idle"]_vars

\* --------------------------------------------------------- purchase claims
C11_Fee(subtotal) == IF subtotal > 50 THEN 0 ELSE 5
C11_GrandTotal(c) == C4_Sum(c, Len(c)) + C11_Fee(C4_Sum(c, Len(c)))

\* C11: the shipping fee is 5, and 0 exactly when the cart subtotal is above
\* 50; the grand total is subtotal + fee (45 for 40, 60 for 60); the amount
\* sent to the payment API, the total_price of the order and the displayed
\* total are each computed by this rule from the cart's subtotal.
C11_ShippingRule ==
    [][/\ DisplayedTotal(cart') = C11_GrandTotal(cart')
       /\ getTotalPrice(cart') = 40 => DisplayedTotal(cart') = 45
       /\ getTotalPrice(cart') = 60 => DisplayedTotal(cart') = 60
       /\ (pcProceed = "idle" /\ pcProceed' = "awaitIntent") =>
              intentAmount' = C11_GrandTotal(cart)
       /\ orderData' # orderData => orderData'.total_price = C11_GrandTotal(cart)
       /\ orders' # orders =>
              /\ Len(orders') = Len(orders) + 1
              /\ orders'[Len(orders')].total_price = C11_GrandTotal(cart)]_vars

\* An order of subtotal 50, at the threshold: the fee is charged.
C11_Witness ==
    /\ getTotalPrice(cart) = 50
    /\ intentAmount = 55
    /\ Len(orders) = 1
    /\ orders[1].total_price = 55
    /\ DisplayedTotal(cart) = 55

C12_Floor(n) == IF n < 0 THEN 0 ELSE n

\* C12: for each cart line the finalize sequence reads the product's current
\* stock from the record store and writes back max(0, stock - quantity); a
\* stock value written by checkout is never negative.
C12_StockFlooredAtZero ==
    [][\A i \in 1..Len(stockReq) :
          /\ (stockReq[i] = "read" /\ stockReq'[i] = "write") =>
                 newStock'[i] = C12_Floor(storeStock[cart[i].id] - cart[i].quantity)
          /\ (stockReq[i] = "write" /\ stockReq'[i] = "done") =>
                 /\ storeStock'[cart[i].id] = C12_Floor(storeStock[cart[i].id] - cart[i].quantity)
                 /\ storeStock'[cart[i].id] >= 0
          /\ \A id \in ProductIds :
                 storeStock'[id] # storeStock[id] =>
                    \E j \in 1..Len(stockReq) : cart[j].id = id /\ stockReq[j] = "write"]_vars

\* The first line's stock was written one lower; the second line's stock is
\* below its quantity and the value to write is 0.
C12_Witness ==
    /\ Len(cart) = 2
    /\ Len(stockReq) = 2
    /\ stockReq[1] = "done"
    /\ cart[1].quantity = 1
    /\ storeStock[cart[1].id] = MaxStock - 1
    /\ stockReq[2] = "write"
    /\ storeStock[cart[2].id] < cart[2].quantity
    /\ newStock[2] = 0

C13_Item(line) ==
    [order |-> 1, product |-> line.id, quantity |-> line.quantity,
     price |-> IF line.sale_price # None /\ 0 < line.sale_price[1]
                     /\ line.sale_price[1] < line.price
               THEN line.sale_price[1] ELSE line.price]

\* C13: when finalize succeeds, exactly one order-item record was created per
\* cart line, referencing the created order and the line's product id, with
\* the line's quantity and the line's effective price (sale_price if
\* 0 < sale_price < price, else price) as unit price.
C13_OneItemPerLine ==
    [][/\ orderItems' # orderItems =>
              \E i \in 1..Len(cart) :
                  /\ itemReq[i] = "pending" /\ itemReq'[i] = "created"
                  /\ C13_Item(cart[i]) \notin orderItems
                  /\ orderItems' = orderItems \cup {C13_Item(cart[i])}
       /\ (pcFin # "done" /\ pcFin' = "done") =>
              /\ Len(orders') = 1
              /\ orderItems' = {C13_Item(cart[i]) : i \in 1..Len(cart)}
              /\ Cardinality(orderItems') = Len(cart)]_vars

\* A finished purchase of two lines, the first with a sale price above its
\* price.
C13_Witness ==
    /\ pcFin = "done"
    /\ orderItems = {[order |-> 1, product |-> "A", quantity |-> MaxQty, price |-> 5],
                     [order |-> 1, product |-> "B", quantity |-> 1, price |-> 5]}

\* C14: an order created for a shopper who is not signed in, or who is
\* detected as an OAuth user, carries the guest contact fields and no user
\* reference; an order for a regular registered user carries the user
\* reference.
C14_GuestInsteadOfUser ==
    \A i \in 1..Len(orders) :
        IF user = None \/ isOAuthUser(user)
        THEN orders[i].guest /\ orders[i].user = None
        ELSE orders[i].user = Some(Val(user).id)

\* ---------------------------------------------------------- catalog claims
C15_Visible(r) == r.in_stock = TRUE /\ r.hidden = FALSE
C15_Entry(r) ==
    [id |-> r.id, price |-> r.price,
     sale_price |-> IF r.sale_price = 0 THEN <<>> ELSE <<r.sale_price>>,
     stock |-> r.stock]
C15_Listed(list, id) == \E i \in 1..Len(list) : list[i].id = id
C15_Without(list, id) == LET Other(e) == e.id # id IN SelectSeq(list, Other)

\* C15: on an 'update' event for record r, a visible r (in_stock and not
\* hidden) replaces the list entry of its id in place, or is put first when
\* the list has no such entry; an r that is not visible has its entry removed;
\* all other entries and their order are unchanged.
C15_UpdateEvent ==
    [][\A r \in CatalogEventRecords("update") :
          OnCatalogEvent("update", r) =>
             IF C15_Visible(r)
             THEN IF C15_Listed(products, r.id)
                  THEN /\ Len(products') = Len(products)
                       /\ \A i \in 1..Len(products) :
                             products'[i] = IF products[i].id = r.id
                                            THEN C15_Entry(r) ELSE products[i]
                  ELSE products' = <<C15_Entry(r)>> \o products
             ELSE products' = C15_Without(products, r.id)]_vars

\* An update put its record first, before an entry of the other id.
C15_Witness ==
    /\ lastOp.op = "update"
    /\ Len(products) = 3
    /\ products[1].id = lastOp.id
    /\ products[2].id # lastOp.id
    /\ products[3].id = lastOp.id

\* C16 as claimed: on a 'create' event the new record is appended to the
\* list if it is in stock and not hidden; otherwise the list is unchanged.
C16_CreateAppends ==
    [][\A r \in CatalogEventRecords("create") :
          OnCatalogEvent("create", r) =>
             products' = IF C15_Visible(r) THEN Append(products, C15_Entry(r))
                         ELSE products]_vars

\* C16, amended: on a 'create' event the new record is put first in the list
\* if it is in stock and not hidden; otherwise the list is unchanged.
C16_CreatePrepends ==
    [][\A r \in CatalogEventRecords("create") :
          OnCatalogEvent("create", r) =>
             products' = IF C15_Visible(r) THEN <<C15_Entry(r)>> \o products
                         ELSE products]_vars

C16_Witness ==
    /\ lastOp.op = "create"
    /\ Len(products) = 2
    /\ products[1].id = lastOp.id
    /\ products[2].id # lastOp.id

\* C17: after an 'update' event that marks a listed product as hidden the
\* list no longer holds the product's id; after an 'update' event that
\* un-hides a product the list holds the product's id.
C17_HideAndUnhide ==
    [][\A r \in CatalogEventRecords("update") :
          OnCatalogEvent("update", r) =>
             /\ (r.hidden /\ C15_Listed(products, r.id)) => ~C15_Listed(products', r.id)
             /\ (~r.hidden /\ ~C15_Listed(products, r.id)) => C15_Listed(products', r.id)]_vars

C18_Same(entry, r) == entry.id = r.id /\ entry.price = r.price /\ entry.stock = r.stock
C18_Yields(list, store) ==
    LET Shown(r) == r.hidden = FALSE
        shown == SelectSeq(store, Shown)
    IN  /\ Len(list) = Len(shown)
        /\ \A i \in 1..Len(shown) : C18_Same(list[i], shown[i])
        /\ \A i, j \in 1..Len(shown) :
              i < j => \/ shown[i].display_order > shown[j].display_order
                       \/ /\ shown[i].display_order = shown[j].display_order
                          /\ shown[i].created > shown[j].created

\* C18: fetchProducts yields the non-hidden products in the store's order
\* (descending display_order, then descending creation time); when the
\* filtered query fails the unfiltered query is issued and the hidden records
\* are filtered out by the client; when both fail the list is empty; in every
\* case the loading flag ends false.
C18_FetchProducts ==
    [][/\ pcFetch' # pcFetch => \A store \in StoreLists :
            /\ FilteredQueryReturns(store, TRUE) =>
                   C18_Yields(products', store) /\ pcFetch' = "done" /\ gridLoading' = FALSE
            /\ FilteredQueryReturns(store, FALSE) =>
                   pcFetch' = "unfiltered" /\ products' = products
            /\ UnfilteredQueryReturns(store, TRUE) =>
                   C18_Yields(products', store) /\ pcFetch' = "done" /\ gridLoading' = FALSE
            /\ UnfilteredQueryReturns(store, FALSE) =>
                   products' = <<>> /\ pcFetch' = "done" /\ gridLoading' = FALSE
       /\ pcFetch' = "done" => gridLoading' = FALSE
       /\ pcFetch' # "done" => gridLoading' = TRUE]_vars

\* The fallback listed two products.
C18_Witness ==
    /\ lastOp.op = "fetchedFallback"
    /\ Len(products) = 2
    /\ products[1].id # products[2].id
    /\ pcFetch = "done"
    /\ gridLoading = FALSE

\* ---------------------------------------------------------- finalize order
C19_Issued(reqs) == \E i \in 1..Len(reqs) : reqs[i] # "idle"

\* C19: within one finalize sequence the creation of the order record has
\* completed before any order-item creation is issued, every order-item
\* creation has completed before any stock read or write is issued, and the
\* cart is cleared and the view navigated to the confirmation page only after
\* every stock update has settled.
C19_FinalizeOrder ==
    /\ C19_Issued(itemReq) => Len(orders) = 1 /\ Happened("order_persisted")
    /\ C19_Issued(stockReq) =>
          /\ \A i \in 1..Len(itemReq) : itemReq[i] = "created"
          /\ Cardinality(orderItems) = Len(itemReq)
    /\ Happened("stock_updated") => Cardinality(orderItems) = Len(itemReq)
    /\ (cart = <<>> \/ navigated) =>
          /\ cart = <<>> /\ navigated
          /\ Len(stockReq) >= 1
          /\ \A i \in 1..Len(stockReq) : stockReq[i] \in {"done", "failed"}

C19_Witness ==
    /\ navigated
    /\ cart = <<>>
    /\ Len(orders) = 1
    /\ Cardinality(orderItems) = 2
    /\ stockReq = <<"done", "done">>

\* C20: a failed stock update (read or write, of any cart line) does not
\* block the success path: the stock updates of the other lines stay issued
\* and run to their end, the run never takes the error path, and when it ends
\* the cart is cleared and the shopper is on the confirmation view.
C20_StockFailureNotBlocking ==
    SomeStockFailed =>
        /\ pcFin \in {"stock", "done"}
        /\ "order_error" \notin toast
        /\ \A i \in 1..Len(stockReq) : stockReq[i] \in {"read", "write", "done", "failed"}
        /\ pcFin = "stock" =>
              /\ \E i \in 1..Len(stockReq) : stockReq[i] \in {"read", "write"}
              /\ loading /\ ~navigated
        /\ pcFin = "done" =>
              /\ \A i \in 1..Len(stockReq) : stockReq[i] \in {"done", "failed"}
              /\ cart = <<>> /\ navigated /\ "order_ok" \in toast /\ ~loading

\* The first line's stock update failed, the second line's was still made.
C20_Witness ==
    /\ pcFin = "done"
    /\ stockReq = <<"failed", "done">>
    /\ Happened("stock_updated")
    /\ cart = <<>>
    /\ navigated

\* ------------------------------------------------------ cart frame claims
\* C21: a realtime event never adds or removes cart entries: an 'update' for
\* a product id that is not in the cart leaves the cart unchanged, an
\* 'update' for an id in the cart changes only the entry of that id, and
\* 'create' and 'delete' events leave the cart unchanged.
C21_ReconcileFrame ==
    [][lastOp'.op \in {"create", "update", "delete"} =>
          /\ Len(cart') = Len(cart)
          /\ \A i \in 1..Len(cart) :
                /\ cart'[i].id = cart[i].id
                /\ (lastOp'.op # "update" \/ cart[i].id # lastOp'.id) => cart'[i] = cart[i]
          /\ (lastOp'.op # "update" \/ ~(\E i \in 1..Len(cart) : cart[i].id = lastOp'.id))
                => cart' = cart]_vars

\* An update for a product that is not in the one-entry cart.
C21_Witness ==
    /\ lastOp.op = "update"
    /\ Len(cart) = 1
    /\ cart[1].id # lastOp.id
    /\ cart[1].quantity = MaxQty

\* C28: the cart never holds two entries of one product id.
C28_NoDuplicateIds ==
    \A i, j \in 1..Len(cart) : i # j => cart[i].id # cart[j].id

\* A full cart: one entry per product id, reached through the stock limit.
C28_Witness ==
    /\ Len(cart) = 2
    /\ cart[1].id # cart[2].id
    /\ lastOp.op = "addToCart"
    /\ \E i \in 1..2 : /\ cart[i].id = lastOp.id
                        /\ cart[i].stock # None
                        /\ cart[i].quantity = cart[i].stock[1]

\* -------------------------------------------------------- charged amount
\* C22: the total_price of the order created by finalize equals the amount
\* the payment intent was created for, whatever realtime reconcile events
\* reach the cart between proceedToPayment and the payment-success callback.
C22_OrderTotalIsChargedAmount ==
    \A i \in 1..Len(orders) : orders[i].total_price = intentAmount

\* ------------------------------------------------------ concurrent shoppers
RECURSIVE C23_Bought(_)
C23_Bought(n) ==
    IF n = 0 THEN 0
    ELSE C23_Bought(n - 1)
           + (IF shoppers[n].cart = <<>> THEN 0 ELSE shoppers[n].cart[1].quantity)

\* C23: when checkouts buying q1 and q2 units of one product of stock
\* S >= q1 + q2 run their finalize sequences at the same time, the product's
\* final stock is S - q1 - q2 in every interleaving of their stock reads and
\* writes.
C23_NoLostDecrement ==
    ((\A s \in Shoppers : shoppers[s].pc = "done")
        /\ initialStock >= C23_Bought(NumShoppers))
      => storeStock[SoldId] = initialStock - C23_Bought(NumShoppers)

RECURSIVE C24_Sold(_)
C24_Sold(items) ==
    IF items = {} THEN 0
    ELSE LET it == CHOOSE x \in items : TRUE
         IN  it.quantity + C24_Sold(items \ {it})

\* C24: for every product, the total quantity in the order items created by
\* checkouts never exceeds the stock the product had before those checkouts.
C24_NeverOversold ==
    \A id \in ProductIds :
        C24_Sold({it \in orderItems : it.product = id})
          <= (IF id = SoldId THEN initialStock ELSE 0)

\* --------------------------------------------------------- finalize once
C25_Forward ==
    {<<"idle", "verifyUser">>, <<"idle", "createOrder">>, <<"verifyUser", "createOrder">>,
     <<"createOrder", "items">>, <<"createOrder", "failed">>,
     <<"items", "stock">>, <<"items", "failed">>, <<"stock", "done">>}

C26_NoHiddenProductListed ==
    eventQueue = <<>> =>
        \A i \in 1..Len(products) :
            ~\E r \in productStore : r.id = products[i].id /\ r.hidden

\* C27: the list never holds two entries with the same product id.
C27_NoDuplicateProducts ==
    \A i, j \in 1..Len(products) : i # j => products[i].id # products[j].id

\* ------------------------------------------------------ orders management
C29_Request == adminReq'
C29_LocalStatus(list, orderId) ==
    {list[i].status : i \in {k \in 1..Len(list) : list[k].id = orderId}}

\* C29: when a call of updateOrderStatus(orderId, s) ends reporting success
\* with the local list showing s, the orders collection holds s for that
\* order; when every remote update attempt of the call failed, the local list
\* is as it was and an error is reported.
C29_SuccessIsStored ==
    [][(pcAdmin \in {"direct", "http"} /\ pcAdmin' = "idle") =>
          /\ ("Success" \in adminToast'
                 /\ C29_LocalStatus(adminOrders', C29_Request.orderId) = {C29_Request.newStatus})
                => orderStore'[C29_Request.orderId] = C29_Request.newStatus
          /\ C29_Request.strategy = 3 =>
                adminOrders' = adminOrders /\ "Error" \in adminToast']_vars

\* ------------------------------------------------------------ OAuth sign-in
\* C30: a callback saves a session into the auth store only when the state
\* of its URL equals the oauth_state stored when the sign-in was started; a
\* callback whose state is absent, differs, or has no stored counterpart
\* saves none.
C30_SavedOnlyOnMatchingState ==
    [][(pcCallback # "idle" /\ callback'.outcome = "saved") =>
          /\ callback.params.state # None
          /\ callback.storedState # None
          /\ callback.params.state = callback.storedState]_vars

====
